---------------------------- MODULE Spec2Model ----------------------------
(***************************************************************************)
(* A model of the GRIB2 C library routines of NCEPLIBS-g2c:                *)
(*   g2_gribend   (message finalisation),                                  *)
(*   seekgb       (message boundary scanner),                              *)
(*   getdim / getpoly (grid definition summaries),                         *)
(*   getdrstemplate / extdrstemplate (DRS template registry),              *)
(*   g2_unpack2 / g2_unpack6 (section decoders),                           *)
(*   simunpack    (simple unpacking).                                      *)
(* Octets are integers 0..255, buffers are functions from 0-based octet    *)
(* indices to octets, g2int values are mathematical integers (every value  *)
(* met within the bounds fits 32 bits, so the width of g2int is not        *)
(* exercised).                                                             *)
(***************************************************************************)
EXTENDS Integers, Sequences, FiniteSets, TLC

-----------------------------------------------------------------------------
(* Bit level I/O: gbit, gbits, sbit.                                       *)

Pow2(n) == 2 ^ n

\* Octet i of buffer buf; an index outside the buffer is a read of memory the
\* buffer does not own, and yields the octet oob the caller of the model chose.
Octet(buf, i, oob) == IF i \in DOMAIN buf THEN buf[i] ELSE oob

\* Bit i (0 = most significant bit of octet 0) of buf.
BitAt(buf, i, oob) == (Octet(buf, i \div 8, oob) \div Pow2(7 - (i % 8))) % 2

RECURSIVE GbitAcc(_, _, _, _, _)
GbitAcc(buf, iskip, nbits, oob, acc) ==
  IF nbits = 0 THEN acc
  ELSE GbitAcc(buf, iskip + 1, nbits - 1, oob, 2 * acc + BitAt(buf, iskip, oob))

\* gbit(in, &iout, iskip, nbits): the nbits-bit big-endian unsigned integer at
\* bit offset iskip.
Gbit(buf, iskip, nbits, oob) == GbitAcc(buf, iskip, nbits, oob, 0)

\* gbits(in, iout, iskip, nbits, nskip, n): n fields of nbits bits, nskip bits
\* apart, as a sequence (iout[0] is element 1).
Gbits(buf, iskip, nbits, nskip, n, oob) ==
  [j \in 1..n |-> Gbit(buf, iskip + (j - 1) * (nbits + nskip), nbits, oob)]

\* val >> k for 0 <= k <= 31, computed without forming 2^31.
Shr(val, k) == IF k > 30 THEN (val \div Pow2(30)) \div Pow2(k - 30) ELSE val \div Pow2(k)

\* The value of bit i after sbit(out, &val, iskip, nbits).
SbitBit(buf, val, iskip, nbits, i) ==
  IF i >= iskip /\ i < iskip + nbits
  THEN Shr(val, iskip + nbits - 1 - i) % 2
  ELSE BitAt(buf, i, 0)

\* sbit(out, &val, iskip, nbits): buf with the low nbits bits of val stored
\* big-endian at bit offset iskip, every other bit kept.
Sbit(buf, val, iskip, nbits) ==
  [b \in DOMAIN buf |->
     IF 8 * b + 7 < iskip \/ 8 * b >= iskip + nbits THEN buf[b]
     ELSE   SbitBit(buf, val, iskip, nbits, 8 * b) * 128
          + SbitBit(buf, val, iskip, nbits, 8 * b + 1) * 64
          + SbitBit(buf, val, iskip, nbits, 8 * b + 2) * 32
          + SbitBit(buf, val, iskip, nbits, 8 * b + 3) * 16
          + SbitBit(buf, val, iskip, nbits, 8 * b + 4) * 8
          + SbitBit(buf, val, iskip, nbits, 8 * b + 5) * 4
          + SbitBit(buf, val, iskip, nbits, 8 * b + 6) * 2
          + SbitBit(buf, val, iskip, nbits, 8 * b + 7)]

-----------------------------------------------------------------------------
(* Bounds of the model.                                                    *)

\* Sections a caller adds after g2_create.
MaxSections == 3
\* Longest section a caller adds, in octets (the shortest holds the 4-octet
\* length and the section number: 5).
MaxSecLen == 6
\* Largest offset at which a byte source holds its start marker.
MaxSkip == 2
\* Largest value of the two template entries that size a DRS extension.
MaxExt == 2
\* Largest number of grid points of a bit-map.
MaxNgpts == 10

\* Largest section length a buffer handed to g2_gribend alone declares.
MaxScanSec == 6
\* Largest number of data points simunpack unpacks.
MaxNdpts == 3

-----------------------------------------------------------------------------
(* Message assembly: g2_create, the add-section operations, g2_gribend.    *)

VARIABLES
  cgrib,   \* the caller's message buffer
  secs,    \* history: the sections added since g2_create, as <<number, length>>
  ended,   \* history: g2_gribend has succeeded on the message in the buffer
  call     \* history: the last assembly call, the buffer before it, its return value

asmVars == <<cgrib, secs, ended, call>>

G == 71
R == 82
I == 73
B == 66
seven == 55

\* Length of section 0.
Sec0Len == 16
\* Length of the identification section g2_create writes.
Sec1Len == 21
\* The message g2_create returns for listsec0 = {0,2} and
\* listsec1 = {0,0,0,0,0,2021,9,22,0,0,0,0,0}.
CreatedMsg ==
  <<71, 82, 73, 66, 0, 0, 0, 2, 0, 0, 0, 0, 0, 0, 0, 37,
    0, 0, 0, 21, 1, 0, 0, 0, 0, 0, 0, 0, 7, 229, 9, 22, 0, 0, 0, 0, 0>>

\* Octets of the caller's buffer: room for the largest message the bounds allow
\* and its end section, and not one octet more.
BufLen == Sec0Len + Sec1Len + MaxSections * MaxSecLen + 4

BlankBuf == [i \in 0..(BufLen - 1) |-> 0]

NoCall == [op |-> "none", pre |-> BlankBuf, ret |-> 0, wasEnded |-> FALSE]

\* g2_create(cgrib, listsec0, listsec1): -1 when listsec0[1] (the edition) is
\* not 2, else sections 0 and 1 written and the length so far returned.
G2CreateBuf(buf, edition) ==
  IF edition # 2 THEN buf
  ELSE [i \in DOMAIN buf |-> IF i < Len(CreatedMsg) THEN CreatedMsg[i + 1] ELSE buf[i]]

G2CreateRet(edition) == IF edition # 2 THEN -1 ELSE Len(CreatedMsg)

G2Create(edition) ==
  /\ secs = << >>
  /\ cgrib' = G2CreateBuf(cgrib, edition)
  /\ secs' = IF edition # 2 THEN secs ELSE << <<1, Sec1Len>> >>
  /\ ended' = IF edition # 2 THEN ended ELSE FALSE
  /\ call' = [op |-> "g2_create", pre |-> cgrib, ret |-> G2CreateRet(edition),
              wasEnded |-> ended]

HasStart(buf) == buf[0] = G /\ buf[1] = R /\ buf[2] = I /\ buf[3] = B

\* An add-section operation (g2_addlocal, g2_addgrid, g2_addfield): after the
\* start marker is validated, a section of ilen octets numbered isecnum is
\* appended at the current end and the total length in section 0 updated.
AddSectionBuf(buf, isecnum, ilen) ==
  LET lencurr == Gbit(buf, 96, 32, 0)
      body == [i \in DOMAIN buf |->
                 IF i >= lencurr /\ i < lencurr + ilen THEN 0 ELSE buf[i]]
      withLen == Sbit(body, ilen, lencurr * 8, 32)
      withNum == Sbit(withLen, isecnum, lencurr * 8 + 32, 8)
  IN Sbit(withNum, lencurr + ilen, 96, 32)

AddSection(isecnum, ilen) ==
  /\ Len(secs) < 1 + MaxSections
  /\ ended' = ended
  /\ IF ~HasStart(cgrib)
     THEN /\ cgrib' = cgrib
          /\ secs' = secs
          /\ call' = [op |-> "g2_add", pre |-> cgrib, ret |-> -1, wasEnded |-> ended]
     ELSE /\ Gbit(cgrib, 96, 32, 0) + ilen + 4 <= BufLen
          /\ cgrib' = AddSectionBuf(cgrib, isecnum, ilen)
          /\ secs' = Append(secs, <<isecnum, ilen>>)
          /\ call' = [op |-> "g2_add", pre |-> cgrib,
                      ret |-> Gbit(cgrib, 96, 32, 0) + ilen, wasEnded |-> ended]

\* The scan without its overrun check: a sum that passes lencurr ends the scan
\* like a sum that reaches it.
RECURSIVE GribEndScanNoOverrun(_, _, _, _)
GribEndScanNoOverrun(buf, lencurr, len, oob) ==
  LET iofst == len * 8
      ilen == Gbit(buf, iofst, 32, oob)
      isecnum == Gbit(buf, iofst + 32, 8, oob)
      newlen == len + ilen
  IN IF newlen >= lencurr THEN [ierr |-> 0, isecnum |-> isecnum]
     ELSE GribEndScanNoOverrun(buf, lencurr, newlen, oob)

\* The section scan of g2_gribend: from accumulated length len, read the next
\* section's length and number, add the length, stop when the sum reaches
\* lencurr (last section found) or passes it (-3).
RECURSIVE GribEndScan(_, _, _, _)
GribEndScan(buf, lencurr, len, oob) ==
  LET iofst == len * 8
      ilen == Gbit(buf, iofst, 32, oob)
      isecnum == Gbit(buf, iofst + 32, 8, oob)
      newlen == len + ilen
  IN IF newlen = lencurr THEN [ierr |-> 0, isecnum |-> isecnum]
     ELSE IF newlen > lencurr THEN [ierr |-> -3, isecnum |-> isecnum]
     ELSE GribEndScan(buf, lencurr, newlen, oob)

\* The section check accepting every section up to 7.
LastIsSevenOrLower(isecnum) == isecnum <= 7

\* "Can only add End Section (Section 8) after Section 7."
LastIsSeven(isecnum) == isecnum = 7

\* The end section appended, and the total length of section 0 left as it was.
GribEndFinishStaleTotal(buf, lencurr) ==
  LET ended7 == [i \in DOMAIN buf |->
                   IF i >= lencurr /\ i <= lencurr + 3 THEN seven ELSE buf[i]]
  IN [ret |-> lencurr + 4, buf |-> ended7]

\* The end section appended at lencurr and the total length in section 0
\* updated: the return value and the buffer.
GribEndFinish(buf, lencurr) ==
  LET ended7 == [i \in DOMAIN buf |->
                   IF i >= lencurr /\ i <= lencurr + 3 THEN seven ELSE buf[i]]
      lengrib == lencurr + 4
  IN [ret |-> lengrib, buf |-> Sbit(ended7, lengrib, 96, 32)]

\* g2_gribend(cgrib): the return value and the buffer it leaves.
GribEndResult(buf, oob) ==
  IF ~HasStart(buf) THEN [ret |-> -1, buf |-> buf]
  ELSE LET lencurr == Gbit(buf, 96, 32, oob)
           scan == GribEndScan(buf, lencurr, Sec0Len, oob)
       IN IF scan.ierr # 0 THEN [ret |-> scan.ierr, buf |-> buf]
          ELSE IF ~LastIsSeven(scan.isecnum) THEN [ret |-> -4, buf |-> buf]
          ELSE GribEndFinish(buf, lencurr)

G2GribEnd(oob) ==
  LET r == GribEndResult(cgrib, oob)
  IN /\ cgrib' = r.buf
     /\ secs' = secs
     /\ ended' = (ended \/ r.ret > 0)
     /\ call' = [op |-> "g2_gribend", pre |-> cgrib, ret |-> r.ret,
                 wasEnded |-> ended]

\* Octets a read past the end of a buffer may yield.
OobOctets == {0, 7}

\* Section numbers the caller adds: a section other than the data section, and
\* the data section.
AddedSecNums == {3, 7}

AsmInit ==
  /\ cgrib = BlankBuf
  /\ secs = << >>
  /\ ended = FALSE
  /\ call = NoCall

-----------------------------------------------------------------------------
(* g2_gribend one loop iteration at a time, on any buffer.                 *)

VARIABLES
  gbuf,     \* the buffer cgrib handed to g2_gribend
  gpc,      \* position of the call: "idle", "entry", "loop", "done"
  glencurr, \* lencurr, the total length read from section 0
  glen,     \* len, the accumulated length
  gret,     \* the value returned
  gprev     \* history: <<len before the last iteration>>, << >> if none

scanVars == <<gbuf, gpc, glencurr, glen, gret, gprev>>

\* Octets of the buffer handed to g2_gribend.
ScanBufLen == Sec0Len + 2 * MaxScanSec

\* A buffer with or without the start marker, the total length T in section 0,
\* a section header (length l1, number n1) at octet 16 and one (l2, n2) at
\* octet 16 + l1.
ScanBuf(start, T, l1, n1, l2, n2) ==
  LET zero == [i \in 0..(ScanBufLen - 1) |-> 0]
      sec0 == [i \in DOMAIN zero |->
                 IF start /\ i < 4 THEN <<G, R, I, B>>[i + 1]
                 ELSE IF i = 7 THEN 2 ELSE 0]
      total == Sbit(sec0, T, 96, 32)
      second == Sbit(Sbit(total, l2, (Sec0Len + l1) * 8, 32),
                     n2, (Sec0Len + l1) * 8 + 32, 8)
  IN Sbit(Sbit(second, l1, Sec0Len * 8, 32), n1, Sec0Len * 8 + 32, 8)

\* One iteration of the section loop: the next section's length and number
\* read at len, the length added, and how the loop goes on.
GribEndIter(buf, lencurr, len, oob) ==
  LET iofst == len * 8
      ilen == Gbit(buf, iofst, 32, oob)
      isecnum == Gbit(buf, iofst + 32, 8, oob)
      newlen == len + ilen
  IN [len |-> newlen, isecnum |-> isecnum,
      next |-> IF newlen = lencurr THEN "last"
               ELSE IF newlen > lencurr THEN "overrun" ELSE "again"]

\* g2_gribend up to its loop: the start marker checked, lencurr read, len = 16.
GribEndEnter(oob) ==
  /\ gpc = "entry"
  /\ IF ~HasStart(gbuf)
     THEN /\ gpc' = "done"
          /\ gret' = -1
          /\ UNCHANGED <<gbuf, glencurr, glen, gprev>>
     ELSE /\ gpc' = "loop"
          /\ glencurr' = Gbit(gbuf, 96, 32, oob)
          /\ glen' = Sec0Len
          /\ UNCHANGED <<gbuf, gret, gprev>>

\* One iteration of the loop and, when it leaves the loop, the rest of the
\* call.
GribEndLoop(oob) ==
  /\ gpc = "loop"
  /\ LET it == GribEndIter(gbuf, glencurr, glen, oob)
     IN /\ glen' = it.len
        /\ gprev' = <<glen>>
        /\ glencurr' = glencurr
        /\ CASE it.next = "again" ->
                  /\ gpc' = "loop"
                  /\ UNCHANGED <<gbuf, gret>>
             [] it.next = "overrun" ->
                  /\ gpc' = "done"
                  /\ gret' = -3
                  /\ gbuf' = gbuf
             [] it.next = "last" ->
                  LET r == IF ~LastIsSeven(it.isecnum)
                           THEN [ret |-> -4, buf |-> gbuf]
                           ELSE GribEndFinish(gbuf, glencurr)
                  IN /\ gpc' = "done"
                     /\ gret' = r.ret
                     /\ gbuf' = r.buf

\* Section lengths and numbers the buffer declares.
ScanLens == 0..MaxScanSec
ScanNums == {3, 7}

ScanInit ==
  /\ \E start \in BOOLEAN, T \in Sec0Len..ScanBufLen,
        l1 \in ScanLens, n1 \in ScanNums, l2 \in ScanLens, n2 \in ScanNums :
       gbuf = ScanBuf(start, T, l1, n1, l2, n2)
  /\ gpc = "entry"
  /\ glencurr = 0
  /\ glen = 0
  /\ gret = 0
  /\ gprev = << >>

ScanIdle ==
  /\ gbuf = << >>
  /\ gpc = "idle"
  /\ glencurr = 0
  /\ glen = 0
  /\ gret = 0
  /\ gprev = << >>

-----------------------------------------------------------------------------
(* The message boundary scanner: seekgb.                                   *)

VARIABLES
  file,     \* the octets of the byte source lugb
  iseek,    \* argument: octets to skip before the search
  mseek,    \* argument: octets to search at a time
  spc,      \* position of the call: "entry", "loop", "done"
  ipos,     \* the search position
  nread,    \* octets the last chunk read delivered
  cbuf,     \* the chunk buffer of mseek octets
  fpos,     \* the file position indicator of lugb
  lskip,    \* result: offset of the message found
  lgrib,    \* result: length of the message found, 0 if none
  prevIpos, \* history: <<the search position before the last chunk read>>, << >> if none
  topRead   \* history: highest index of cbuf the last chunk's candidate loop read, -1 if none

seekVars == <<file, iseek, mseek, spc, ipos, nread, cbuf, fpos, lskip, lgrib, prevIpos,
              topRead>>

\* "GRIB" and "7777" read as one big-endian 32-bit number.
StartMarker == 1196575042
EndMarker == 926365495

Max(a, b) == IF a >= b THEN a ELSE b
Min(a, b) == IF a <= b THEN a ELSE b

FileSize(f) == Cardinality(DOMAIN f)

\* fseek(lugb, pos, SEEK_SET): the file position after it; a negative pos is
\* refused and the position stays where it was.
Fseek(fp, pos) == IF pos >= 0 THEN pos ELSE fp

\* Octets an fread of want octets at position fp delivers.
Avail(f, fp, want) == Max(0, Min(want, FileSize(f) - fp))

\* The 4 octets fread(&end, 4, 1, lugb) stores at position fp, as the number the
\* comparison with 926365495 sees (all four octets equal, so in either byte order).
ReadEnd(f, fp) == ((f[fp] * 256 + f[fp + 1]) * 256 + f[fp + 2]) * 256 + f[fp + 3]

\* The length field of the candidate at k: 3 octets at k+4 for edition 1, 4 octets
\* at k+12 for edition 2.
CandidateLen(buf, k, vers, oob) ==
  IF vers = 1 THEN Gbit(buf, (k + 4) * 8, 3 * 8, oob)
  ELSE Gbit(buf, (k + 12) * 8, 4 * 8, oob)

\* The bound of the candidate loop: for (k = 0; k < lim; k++).
ChunkLim(n) == n - 8

\* The candidate loop of one chunk from index k on: whether a message was found,
\* where, how long, the file position the loop leaves, and the highest index
\* of the chunk buffer it read (the start marker at k..k+3, the edition at
\* k+7, the length at k+4..k+6 or k+12..k+15).
RECURSIVE ScanChunk(_, _, _, _, _, _, _)
ScanChunk(f, buf, pos, lim, k, fp, oob) ==
  IF k >= lim THEN [found |-> FALSE, lskip |-> 0, lgrib |-> 0, fpos |-> fp, top |-> -1]
  ELSE
    LET start == Gbit(buf, (k + 0) * 8, 4 * 8, oob)
        vers == Gbit(buf, (k + 7) * 8, 1 * 8, oob)
    IN IF start = StartMarker /\ (vers = 1 \/ vers = 2)
       THEN LET lengrib == CandidateLen(buf, k, vers, oob)
                fp1 == Fseek(fp, pos + k + lengrib - 4)
                k4 == IF Avail(f, fp1, 4) = 4 THEN 1 ELSE 0
                fp2 == fp1 + Avail(f, fp1, 4)
                here == IF vers = 1 THEN k + 7 ELSE k + 15
            IN IF k4 = 1 /\ ReadEnd(f, fp1) = EndMarker
               THEN [found |-> TRUE, lskip |-> pos + k, lgrib |-> lengrib, fpos |-> fp2,
                     top |-> here]
               ELSE LET rest == ScanChunk(f, buf, pos, lim, k + 1, fp2, oob)
                    IN [rest EXCEPT !.top = Max(here, rest.top)]
       ELSE LET rest == ScanChunk(f, buf, pos, lim, k + 1, fp, oob)
            IN [rest EXCEPT !.top = Max(k + 7, rest.top)]

\* seekgb up to the loop: *lgrib = 0, the buffer allocated (its content is
\* whatever the allocator left there), nread = mseek, ipos = iseek.
SeekgbEntry(fill) ==
  /\ spc = "entry"
  /\ spc' = "loop"
  /\ lgrib' = 0
  /\ cbuf' = [i \in 0..(mseek - 1) |-> fill]
  /\ nread' = mseek
  /\ ipos' = iseek
  /\ UNCHANGED <<file, iseek, mseek, fpos, lskip, prevIpos, topRead>>

\* One iteration of while (*lgrib == 0 && nread == mseek): a chunk read at
\* ipos, the candidate loop, ipos = ipos + lim.
SeekgbChunk(oob) ==
  /\ spc = "loop"
  /\ lgrib = 0 /\ nread = mseek
  /\ LET fp0 == Fseek(fpos, ipos)
         n == Avail(file, fp0, mseek)
         buf == [i \in DOMAIN cbuf |-> IF i < n THEN file[fp0 + i] ELSE cbuf[i]]
         lim == ChunkLim(n)
         r == ScanChunk(file, buf, ipos, lim, 0, fp0 + n, oob)
     IN /\ nread' = n
        /\ cbuf' = buf
        /\ fpos' = r.fpos
        /\ lskip' = IF r.found THEN r.lskip ELSE lskip
        /\ lgrib' = IF r.found THEN r.lgrib ELSE lgrib
        /\ ipos' = ipos + lim
        /\ prevIpos' = <<ipos>>
        /\ topRead' = r.top
  /\ UNCHANGED <<file, iseek, mseek, spc>>

\* The loop left: free(cbuf) and return.
SeekgbReturn ==
  /\ spc = "loop"
  /\ ~(lgrib = 0 /\ nread = mseek)
  /\ spc' = "done"
  /\ UNCHANGED <<file, iseek, mseek, ipos, nread, cbuf, fpos, lskip, lgrib, prevIpos,
                 topRead>>

\* The first octets of a message of the given edition declaring length L:
\* section 0 of edition 2 (length in octets 12..15), or "GRIB", the 3-octet
\* length and the edition number of edition 1.
Header(edition, L) ==
  IF edition = 2 THEN <<71, 82, 73, 66, 0, 0, 0, 2, 0, 0, 0, 0, 0, 0, 0, L>>
  ELSE <<71, 82, 73, 66, 0, 0, L, 1>>

\* A byte source: p octets of zeros, a header declaring length L, "7777" as the
\* last four of the E octets from the header's start (none when E = 0), zeros
\* between, and trail octets of zeros after.
MakeFile(p, edition, L, E, trail) ==
  LET hdr == Header(edition, L)
      n == p + Max(E, Len(hdr)) + trail
  IN [i \in 0..(n - 1) |->
        IF i >= p /\ i < p + Len(hdr) THEN hdr[i - p + 1]
        ELSE IF i >= p + E - 4 /\ i < p + E THEN seven
        ELSE 0]

\* Lengths a header declares, and the places of the end marker.
DeclLens == {3, 20, 24}
EndAts == {0, 20, 24}
TrailLens == {0, 9}
\* Chunk sizes the caller asks for.
ChunkSizes == {7, 8, 9, 16, 17}
\* Octets the chunk buffer holds where no read has stored one, and octets past
\* its end.
StaleOctets == {0, 24}

SeekInit ==
  /\ \E p \in 0..MaxSkip, edition \in {1, 2}, L \in DeclLens, E \in EndAts,
        trail \in TrailLens :
       file = MakeFile(p, edition, L, E, trail)
  /\ iseek \in 0..1
  /\ mseek \in ChunkSizes
  /\ spc = "entry"
  /\ ipos = 0
  /\ nread = 0
  /\ cbuf = << >>
  /\ fpos = 0
  /\ lskip = -1
  /\ lgrib = -1
  /\ prevIpos = << >>
  /\ topRead = -1

\* The scanner before any call, for the specifications of the other components.
SeekIdle ==
  /\ file = << >> /\ iseek = 0 /\ mseek = 0 /\ spc = "idle" /\ ipos = 0
  /\ nread = 0 /\ cbuf = << >> /\ fpos = 0 /\ lskip = -1 /\ lgrib = -1
  /\ prevIpos = << >>
  /\ topRead = -1

-----------------------------------------------------------------------------
(* Grid definition summaries: getdim, getpoly.                             *)

VARIABLES
  width, height, iscan,   \* the caller's outputs of getdim
  jj, kk, mm,             \* the caller's outputs of getpoly
  gridCall                \* history: the last summary call and what g2_unpack3 gave it

gridVars == <<width, height, iscan, jj, kk, mm, gridCall>>

\* Entry i of the grid definition template g2_unpack3 decoded: every entry is
\* told from every other by its value.
Igdstmpl(base, i) == base + i

\* The index of the scanning mode in the template of grid tmplnum, -1 for a grid
\* getdim does not recognise.
DimScanIndex(tmplnum) ==
  CASE tmplnum \in {0, 1, 2, 3} -> 18
    [] tmplnum = 10 -> 15
    [] tmplnum = 20 -> 17
    [] tmplnum = 30 -> 17
    [] tmplnum \in {40, 41, 42, 43} -> 18
    [] tmplnum = 90 -> 16
    [] tmplnum = 110 -> 15
    [] OTHER -> -1

\* getdim after g2_unpack3 returned jerr with template number tmplnum and
\* template values base + i: the outputs, given the values they held.
GetDimResult(tmplnum, jerr, base, w0, h0, s0) ==
  IF jerr = 0
  THEN IF DimScanIndex(tmplnum) # -1
       THEN [width |-> Igdstmpl(base, 7), height |-> Igdstmpl(base, 8),
             iscan |-> Igdstmpl(base, DimScanIndex(tmplnum)), ret |-> 0]
       ELSE [width |-> 0, height |-> 0, iscan |-> 0, ret |-> 0]
  ELSE [width |-> 0, height |-> 0, iscan |-> s0, ret |-> 0]

GetDim(tmplnum, jerr, base) ==
  LET r == GetDimResult(tmplnum, jerr, base, width, height, iscan)
  IN /\ width' = r.width
     /\ height' = r.height
     /\ iscan' = r.iscan
     /\ gridCall' = [op |-> "getdim", tmplnum |-> tmplnum, jerr |-> jerr,
                     base |-> base, ret |-> r.ret]
     /\ UNCHANGED <<jj, kk, mm>>

\* getpoly after g2_unpack3 returned jerr with template number tmplnum.
GetPolyResult(tmplnum, jerr, base) ==
  IF jerr = 0
  THEN IF tmplnum \in {50, 51, 52, 53}
       THEN [jj |-> Igdstmpl(base, 0), kk |-> Igdstmpl(base, 1),
             mm |-> Igdstmpl(base, 2), ret |-> 0]
       ELSE [jj |-> 0, kk |-> 0, mm |-> 0, ret |-> 0]
  ELSE [jj |-> 0, kk |-> 0, mm |-> 0, ret |-> 0]

GetPoly(tmplnum, jerr, base) ==
  LET r == GetPolyResult(tmplnum, jerr, base)
  IN /\ jj' = r.jj
     /\ kk' = r.kk
     /\ mm' = r.mm
     /\ gridCall' = [op |-> "getpoly", tmplnum |-> tmplnum, jerr |-> jerr,
                     base |-> base, ret |-> r.ret]
     /\ UNCHANGED <<width, height, iscan>>

\* Grid definition template numbers: the ones getdim and getpoly know, and
\* some they do not.
SupportedDim == {0, 1, 2, 3, 10, 20, 30, 40, 41, 42, 43, 90, 110}
SupportedPoly == {50, 51, 52, 53}
TmplNums == {0, 10, 20, 30, 40, 50, 53, 90, 110, 4, 9999}
\* Return codes of g2_unpack3: success, and "undefined grid template".
Unpack3Codes == {0, 5}
TmplBases == {100, 200}
\* Values the caller's output variables hold before the first call.
PriorValues == {0, 9}

GridInit ==
  /\ width \in PriorValues /\ height = width /\ iscan \in PriorValues
  /\ jj \in PriorValues /\ kk = jj /\ mm = jj
  /\ gridCall = [op |-> "none", tmplnum |-> 0, jerr |-> 0, base |-> 0, ret |-> 0]

GridIdle ==
  /\ width = 0 /\ height = 0 /\ iscan = 0 /\ jj = 0 /\ kk = 0 /\ mm = 0
  /\ gridCall = [op |-> "none", tmplnum |-> 0, jerr |-> 0, base |-> 0, ret |-> 0]

-----------------------------------------------------------------------------
(* The DRS template registry: getdrsindex, getdrstemplate, extdrstemplate. *)

VARIABLES
  drsCall   \* history: the last registry call, its arguments and what it returned

drsVars == <<drsCall>>

\* The table templatesdrs: template number, map length, needs-extension flag,
\* octet map (a negative width marks a signed field).
TemplatesDrs ==
  << [template_num |-> 0,     mapdrslen |-> 5,  needext |-> 0,
      mapdrs |-> <<4, -2, -2, 1, 1>>],
     [template_num |-> 2,     mapdrslen |-> 16, needext |-> 0,
      mapdrs |-> <<4, -2, -2, 1, 1, 1, 1, 4, 4, 4, 1, 1, 4, 1, 4, 1>>],
     [template_num |-> 3,     mapdrslen |-> 18, needext |-> 0,
      mapdrs |-> <<4, -2, -2, 1, 1, 1, 1, 4, 4, 4, 1, 1, 4, 1, 4, 1, 1, 1>>],
     [template_num |-> 50,    mapdrslen |-> 5,  needext |-> 0,
      mapdrs |-> <<4, -2, -2, 1, 4>>],
     [template_num |-> 51,    mapdrslen |-> 10, needext |-> 0,
      mapdrs |-> <<4, -2, -2, 1, -4, 2, 2, 2, 4, 1>>],
     [template_num |-> 1,     mapdrslen |-> 15, needext |-> 1,
      mapdrs |-> <<4, -2, -2, 1, 1, 1, 4, 2, 2, 1, 1, 1, 1, 1, 1>>],
     [template_num |-> 40,    mapdrslen |-> 7,  needext |-> 0,
      mapdrs |-> <<4, -2, -2, 1, 1, 1, 1>>],
     [template_num |-> 41,    mapdrslen |-> 5,  needext |-> 0,
      mapdrs |-> <<4, -2, -2, 1, 1>>],
     [template_num |-> 40000, mapdrslen |-> 7,  needext |-> 0,
      mapdrs |-> <<4, -2, -2, 1, 1, 1, 1>>],
     [template_num |-> 40010, mapdrslen |-> 5,  needext |-> 0,
      mapdrs |-> <<4, -2, -2, 1, 1>> ] >>

MAXDRSTEMP == Len(TemplatesDrs)

\* A pointer: NULL, or a block holding data.
NullPtr == [null |-> TRUE, data |-> << >>]
Block(data) == [null |-> FALSE, data |-> data]

\* The NULL gtemplate pointer.
NullTemplate ==
  [null |-> TRUE, type |-> 0, num |-> 0, maplen |-> 0, needext |-> 0,
   map |-> << >>, extlen |-> 0, ext |-> NullPtr]

\* getdrsindex(number): the 0-based index of the first entry of the table with
\* that template number, -1 if there is none.
RECURSIVE GetDrsIndexFrom(_, _)
GetDrsIndexFrom(number, j) ==
  IF j >= MAXDRSTEMP THEN -1
  ELSE IF number = TemplatesDrs[j + 1].template_num THEN j
  ELSE GetDrsIndexFrom(number, j + 1)

GetDrsIndex(number) == GetDrsIndexFrom(number, 0)

\* getdrstemplate(number): "returned" with the template (NULL when the number is
\* not in the table), or "fault" when malloc returned NULL and the fields were
\* stored through it.
GetDrsTemplateResult(number, allocOk) ==
  LET index == GetDrsIndex(number)
  IN IF index # -1
     THEN IF ~allocOk THEN [outcome |-> "fault", tmpl |-> NullTemplate]
          ELSE [outcome |-> "returned",
                tmpl |-> [null |-> FALSE, type |-> 5,
                          num |-> TemplatesDrs[index + 1].template_num,
                          maplen |-> TemplatesDrs[index + 1].mapdrslen,
                          needext |-> TemplatesDrs[index + 1].needext,
                          map |-> TemplatesDrs[index + 1].mapdrs,
                          extlen |-> 0, ext |-> NullPtr]]
     ELSE [outcome |-> "returned", tmpl |-> NullTemplate]

\* The extension length taken from the neighbouring entry.
ExtLenWrongEntry(list) == list[10] + list[11]

\* The extension of template 5.1: list[10] + list[12] entries, each 4.
ExtLen(list) == list[10] + list[12]
ExtEntry(i) == 4

\* extdrstemplate(number, list): allocOk is the outcome of getdrstemplate's
\* malloc, extOk of the malloc of the extension.
ExtDrsTemplateResult(number, list, allocOk, extOk) ==
  LET index == GetDrsIndex(number)
  IN IF index = -1 THEN [outcome |-> "returned", tmpl |-> NullTemplate]
     ELSE LET got == GetDrsTemplateResult(number, allocOk)
              new == got.tmpl
          IN IF got.outcome = "fault" THEN got
             ELSE IF new.needext = 0 THEN got
             ELSE IF number = 1
             THEN LET extlen == ExtLen(list)
                      allocated == extOk /\ extlen >= 0
                  IN IF extlen > 0 /\ ~allocated
                     THEN [outcome |-> "fault", tmpl |-> NullTemplate]
                     ELSE [outcome |-> "returned",
                           tmpl |-> [new EXCEPT
                                       !.extlen = extlen,
                                       !.ext = IF allocated
                                               THEN Block([i \in 1..extlen |-> ExtEntry(i - 1)])
                                               ELSE NullPtr]]
             ELSE got

GetDrsTemplate(number, allocOk) ==
  LET r == GetDrsTemplateResult(number, allocOk)
  IN drsCall' = [op |-> "getdrstemplate", number |-> number, list |-> << >>,
                 outcome |-> r.outcome, tmpl |-> r.tmpl]

ExtDrsTemplate(number, list, allocOk, extOk) ==
  LET r == ExtDrsTemplateResult(number, list, allocOk, extOk)
  IN drsCall' = [op |-> "extdrstemplate", number |-> number, list |-> list,
                 outcome |-> r.outcome, tmpl |-> r.tmpl]

\* Template numbers asked for: those of the table and some that are not in it.
DrsNumbers == {0, 1, 2, 3, 40, 41, 50, 51, 40000, 40010, 4, 9999}

\* Decoded template values: entries 0..14, of which entries 10 and 12 take
\* every value from -1 to MaxExt.
DrsList(a, b) == [i \in 0..14 |-> IF i = 10 THEN a ELSE IF i = 12 THEN b ELSE 1]

DrsIdle ==
  drsCall = [op |-> "none", number |-> 0, list |-> << >>, outcome |-> "none",
             tmpl |-> NullTemplate]

-----------------------------------------------------------------------------
(* Section decoders: g2_unpack2 (local use), g2_unpack6 (bit-map).         *)

VARIABLES
  ucgrib,   \* the message buffer handed to the decoders
  secAt,    \* the octet at which its section starts
  iofst,    \* the caller's bit offset cursor
  ucall,    \* history: the last decoder call, its arguments, outcome and return value
  lencsec2, \* output of g2_unpack2: length of the local use data
  csec2,    \* output of g2_unpack2: pointer to the local use data
  ibmap,    \* output of g2_unpack6: the bit-map indicator
  bmap,     \* output of g2_unpack6: pointer to the decoded bit-map
  live      \* the blocks the last call allocated and did not free

unpVars == <<ucgrib, secAt, iofst, ucall, lencsec2, csec2, ibmap, bmap, live>>

\* A pointer that was never set: it is not NULL and owns nothing.
JunkPtr == [null |-> FALSE, data |-> <<-1>>]

\* An error return that leaves *lencsec2 as computed from the section length.
Unpack2FailKeepsLen(ierr, iofst2, len0) ==
  [outcome |-> "returned", ierr |-> ierr, iofst |-> iofst2, lencsec2 |-> len0,
   csec2 |-> NullPtr, live |-> {}]

\* An error return of g2_unpack2: *lencsec2 = 0 and *csec2 still NULL; len0
\* is the length *lencsec2 held before.
Unpack2Fail(ierr, iofst2, len0) ==
  [outcome |-> "returned", ierr |-> ierr, iofst |-> iofst2, lencsec2 |-> 0,
   csec2 |-> NullPtr, live |-> {}]

\* g2_unpack2(cgrib, &iofst, &lencsec2, &csec2) with the cursor at bit iofst0;
\* allocOk is the outcome of malloc(lencsec2 + 1), which fails for a negative
\* size whatever allocOk is.
G2Unpack2Result(buf, iofst0, allocOk, oob) ==
  LET lensec == Gbit(buf, iofst0, 32, oob)
      iofst1 == iofst0 + 32
      len0 == lensec - 5
      isecnum == Gbit(buf, iofst1, 8, oob)
      iofst2 == iofst1 + 8
      pos == iofst2 \div 8
  IN IF isecnum # 2 THEN Unpack2Fail(2, iofst2, len0)
     ELSE IF len0 = 0
     THEN [outcome |-> "returned", ierr |-> 0, iofst |-> iofst2, lencsec2 |-> len0,
           csec2 |-> NullPtr, live |-> {}]
     ELSE IF ~(allocOk /\ len0 + 1 >= 0) THEN Unpack2Fail(6, iofst2, len0)
     ELSE [outcome |-> "returned", ierr |-> 0, iofst |-> iofst2 + len0 * 8,
           lencsec2 |-> len0,
           csec2 |-> Block([j \in 1..len0 |-> Octet(buf, pos + j - 1, oob)]),
           live |-> {"csec2"}]

G2Unpack2(allocOk, oob) ==
  LET r == G2Unpack2Result(ucgrib, secAt * 8, allocOk, oob)
  IN /\ iofst' = r.iofst
     /\ lencsec2' = r.lencsec2
     /\ csec2' = r.csec2
     /\ live' = r.live
     /\ ucall' = [op |-> "g2_unpack2", ngpts |-> 0, allocOk |-> allocOk,
                  tmpOk |-> TRUE, outcome |-> r.outcome, ierr |-> r.ierr]
     /\ UNCHANGED <<ucgrib, secAt, ibmap, bmap>>

\* The cursor left on the indicator octet.
AfterIndicatorStuck(iofst2) == iofst2

\* The cursor after the bit-map indicator read at bit iofst2.
AfterIndicator(iofst2) == iofst2 + 8

\* g2_unpack6(cgrib, &iofst, ngpts, &ibmap, &bmap) with the cursor at bit
\* iofst0; allocOk is the outcome of the calloc of the bit-map, tmpOk of the
\* calloc of the intermediate array gbits fills. ibmap0 is the value *ibmap
\* held.
G2Unpack6Result(buf, iofst0, ngpts, ibmap0, allocOk, tmpOk, oob) ==
  LET iofst1 == iofst0 + 32
      isecnum == Gbit(buf, iofst1, 8, oob)
      iofst2 == iofst1 + 8
      ind == Gbit(buf, iofst2, 8, oob)
      iofst3 == AfterIndicator(iofst2)
  IN IF isecnum # 6
     THEN [outcome |-> "returned", ierr |-> 2, iofst |-> iofst2, ibmap |-> ibmap0,
           bmap |-> NullPtr, live |-> {}]
     ELSE IF ind # 0
     THEN [outcome |-> "returned", ierr |-> 0, iofst |-> iofst3, ibmap |-> ind,
           bmap |-> NullPtr, live |-> {}]
     ELSE IF ~(ngpts > 0 /\ allocOk)
     THEN [outcome |-> "returned", ierr |-> 6, iofst |-> iofst3, ibmap |-> ind,
           bmap |-> NullPtr, live |-> {}]
     ELSE IF ~tmpOk
     THEN [outcome |-> "fault", ierr |-> 0, iofst |-> iofst3, ibmap |-> ind,
           bmap |-> Block([j \in 1..ngpts |-> 0]), live |-> {"lbmap"}]
     ELSE LET intbmap == Gbits(buf, iofst3, 1, 0, ngpts, oob)
          IN [outcome |-> "returned", ierr |-> 0, iofst |-> iofst3 + ngpts,
              ibmap |-> ind, bmap |-> Block([j \in 1..ngpts |-> intbmap[j]]),
              live |-> {"lbmap"}]

G2Unpack6(ngpts, allocOk, tmpOk, oob) ==
  LET r == G2Unpack6Result(ucgrib, secAt * 8, ngpts, ibmap, allocOk, tmpOk, oob)
  IN /\ iofst' = r.iofst
     /\ ibmap' = r.ibmap
     /\ bmap' = r.bmap
     /\ live' = r.live
     /\ ucall' = [op |-> "g2_unpack6", ngpts |-> ngpts, allocOk |-> allocOk,
                  tmpOk |-> tmpOk, outcome |-> r.outcome, ierr |-> r.ierr]
     /\ UNCHANGED <<ucgrib, secAt, lencsec2, csec2>>

\* Octet j (0-based) of the data that follows the first octet of a section's
\* content: alternately 10100101 and 00111100.
DataOctet(j) == IF j % 2 = 0 THEN 165 ELSE 60

\* Octets of data a message buffer holds after the first content octet, enough
\* for a bit-map of MaxNgpts points.
NData == (MaxNgpts + 7) \div 8

\* A message buffer: at zeros, then a section of declared length lensec
\* numbered isecnum whose first content octet is first (the bit-map indicator
\* of a section 6), then NData data octets.
MakeSection(at, lensec, isecnum, first) ==
  [i \in 0..(at + 5 + NData) |->
     IF i < at \/ i \in at..(at + 2) THEN 0
     ELSE IF i = at + 3 THEN lensec
     ELSE IF i = at + 4 THEN isecnum
     ELSE IF i = at + 5 THEN first
     ELSE DataOctet(i - at - 6)]

SecNums == {2, 3, 6}
FirstOctets == {0, 1, 254, 255}

NoUCall ==
  [op |-> "none", ngpts |-> 0, allocOk |-> TRUE, tmpOk |-> TRUE,
   outcome |-> "none", ierr |-> 0]

UnpInit ==
  /\ secAt \in 0..1
  /\ \E lensec \in 4..(6 + NData), isecnum \in SecNums, first \in FirstOctets :
       ucgrib = MakeSection(secAt, lensec, isecnum, first)
  /\ iofst = secAt * 8
  /\ ucall = NoUCall
  /\ lencsec2 = -1
  /\ csec2 = JunkPtr
  /\ ibmap = -1
  /\ bmap = JunkPtr
  /\ live = {}

UnpIdle ==
  /\ ucgrib = << >> /\ secAt = 0 /\ iofst = 0 /\ ucall = NoUCall /\ lencsec2 = -1
  /\ csec2 = JunkPtr /\ ibmap = -1 /\ bmap = JunkPtr /\ live = {}

-----------------------------------------------------------------------------
(* Simple unpacking: simunpack; and the allocator as the calls meet it.    *)

VARIABLES
  simCall,  \* history: the last call of simunpack, its arguments and outcome
  fld,      \* the caller's array of unpacked values
  failed    \* the mallocs of the template registry that fail: "new", "ext"

simVars == <<simCall, fld, failed>>

\* rdieee(rieee, a, 1): the value of the IEEE-754 single precision number with
\* bit pattern bits (sign bit clear), for the patterns whose value is a whole
\* number.
Rdieee(bits) ==
  LET e == (bits \div Pow2(23)) % 256
      m == (bits % Pow2(23)) + Pow2(23)
  IN IF bits = 0 THEN 0
     ELSE IF e >= 150 THEN m * Pow2(e - 150)
     ELSE m \div Pow2(150 - e)

\* int_power(x, y) for y >= 0.
RECURSIVE IntPower(_, _)
IntPower(x, y) == IF y <= 0 THEN 1 ELSE x * IntPower(x, y - 1)

\* simunpack(cpack, idrstmpl, ndpts, fld): the code returned and the array fld
\* left; allocOk is the outcome of the calloc of ifld, fld0 the array before
\* the call.
SimUnpackResult(cpack, idrstmpl, ndpts, fld0, allocOk) ==
  LET ref == Rdieee(idrstmpl[0])
      bscale == IntPower(2, idrstmpl[1])
      dscale == IntPower(10, -idrstmpl[2])
      nbits == idrstmpl[3]
  IN IF ~allocOk THEN [outcome |-> "returned", ierr |-> 1, fld |-> fld0]
     ELSE IF nbits # 0
     THEN LET ifld == Gbits(cpack, 0, nbits, 0, ndpts, 0)
          IN [outcome |-> "returned", ierr |-> 0,
              fld |-> [j \in 1..ndpts |-> ((ifld[j] * bscale) + ref) * dscale]]
     ELSE [outcome |-> "returned", ierr |-> 0, fld |-> [j \in 1..ndpts |-> ref]]

SimUnpack(cpack, idrstmpl, ndpts, allocOk) ==
  LET r == SimUnpackResult(cpack, idrstmpl, ndpts, [j \in 1..ndpts |-> -1], allocOk)
  IN /\ fld' = r.fld
     /\ simCall' = [op |-> "simunpack", ndpts |-> ndpts, nbits |-> idrstmpl[3],
                    allocOk |-> allocOk, outcome |-> r.outcome, ierr |-> r.ierr]
     /\ failed' = failed

\* Bits of a packed value.
SimBits == 4

\* The packed field: octets 10100101, 00111100, ..., enough for MaxNdpts values.
SimPack == [i \in 0..((MaxNdpts * SimBits + 7) \div 8 - 1) |-> DataOctet(i)]

\* Data Representation Template 5.0: the reference value 0.0 or 1.0, binary
\* scale factor e, decimal scale factor d, nbits bits a value, original values
\* floating point.
SimTemplates ==
  { [i \in 0..4 |-> <<ref, e, d, nbits, 0>>[i + 1]] :
      ref \in {0, 1065353216}, e \in {0, 1}, d \in {0, -1}, nbits \in {0, SimBits} }

NoSimCall ==
  [op |-> "none", ndpts |-> 0, nbits |-> 0, allocOk |-> TRUE, outcome |-> "none",
   ierr |-> 0]

SimIdle ==
  /\ simCall = NoSimCall
  /\ fld = << >>
  /\ failed = {}

\* The allocator of one call: every choice of the registry's mallocs that fail.
AllocInit ==
  /\ simCall = NoSimCall
  /\ fld = << >>
  /\ failed \in SUBSET {"new", "ext"}

\* Template numbers and sizing entries the allocation runs ask the registry
\* for.
AllocNumbers == {0, 1, 9999}
AllocExts == {0, MaxExt}

-----------------------------------------------------------------------------
(* Properties of message assembly.                                         *)

\* The 4-octet big-endian number at octet i of buf.
BE32(buf, i) == ((buf[i] * 256 + buf[i + 1]) * 256 + buf[i + 2]) * 256 + buf[i + 3]

RECURSIVE SumLens(_)
SumLens(ss) == IF ss = << >> THEN 0 ELSE ss[1][2] + SumLens(Tail(ss))

\* Offset of section n of ss (1-based) in a message.
SecOffset(ss, n) == Sec0Len + SumLens(SubSeq(ss, 1, n - 1))

\* buf holds an in-progress message made of exactly the sections ss: the start
\* marker, the stored total 16 + the sum of the section lengths, and every
\* section's length and number where the lengths before it put them.
Declares(buf, ss) ==
  /\ ss # << >>
  /\ HasStart(buf)
  /\ BE32(buf, 12) = Sec0Len + SumLens(ss)
  /\ \A n \in 1..Len(ss) :
       /\ BE32(buf, SecOffset(ss, n)) = ss[n][2]
       /\ buf[SecOffset(ss, n) + 4] = ss[n][1]

LastSecNum(ss) == ss[Len(ss)][1]

\* C1: g2_gribend on an in-progress message whose sections sum to the stored
\* total T - 16 and whose last section is section 7 writes "7777" at octets
\* T..T+3, stores T + 4 as the total length, returns T + 4 = 16 + the sum of
\* the section lengths + 4, and changes no other octet.
C1_GribEndSuccess ==
  (call.op = "g2_gribend" /\ Declares(call.pre, secs) /\ LastSecNum(secs) = 7) =>
    LET T == BE32(call.pre, 12)
    IN /\ call.ret = T + 4
       /\ call.ret = Sec0Len + SumLens(secs) + 4
       /\ \A i \in T..(T + 3) : cgrib[i] = 55
       /\ BE32(cgrib, 12) = T + 4
       /\ \A i \in DOMAIN cgrib :
            (i \notin 12..15 /\ i \notin T..(T + 3)) => cgrib[i] = call.pre[i]

C1_Witness ==
  /\ call.op = "g2_gribend"
  /\ Declares(call.pre, secs)
  /\ LastSecNum(secs) = 7
  /\ Len(secs) = 3
  /\ call.ret = Sec0Len + SumLens(secs) + 4
  /\ cgrib # call.pre

\* C2: g2_gribend on an in-progress message whose last section is not section
\* 7 (the message of g2_create alone included) returns -4 and leaves the whole
\* buffer, total length included, as it was.
C2_NotAfterSeven ==
  (call.op = "g2_gribend" /\ Declares(call.pre, secs) /\ LastSecNum(secs) # 7) =>
    (call.ret = -4 /\ cgrib = call.pre)

C2_Witness ==
  /\ call.op = "g2_gribend"
  /\ secs = << <<1, Sec1Len>> >>
  /\ Declares(call.pre, secs)
  /\ call.ret = -4

\* C3: once g2_gribend has succeeded on a message, every further g2_gribend on
\* that buffer returns the already-complete (-2) or structural-inconsistency
\* (-3) code and changes nothing in the buffer.
C3_NoSecondEnd ==
  (call.op = "g2_gribend" /\ call.wasEnded) =>
    (call.ret \in {-2, -3} /\ cgrib = call.pre)

C3_Witness ==
  /\ call.op = "g2_gribend"
  /\ call.wasEnded
  /\ call.ret = -3
  /\ \A i \in (BE32(call.pre, 12) - 4)..(BE32(call.pre, 12) - 1) : call.pre[i] = 55

-----------------------------------------------------------------------------
(* Properties of the scanner.                                              *)

InFile(f, i) == i \in DOMAIN f

\* The source holds the start marker at q.
StartAt(f, q) ==
  /\ InFile(f, q) /\ InFile(f, q + 3)
  /\ f[q] = 71 /\ f[q + 1] = 82 /\ f[q + 2] = 73 /\ f[q + 3] = 66

\* The length the source declares for a message of the given edition at q.
DeclaredLen(f, q, edition) ==
  IF edition = 1 THEN (f[q + 4] * 256 + f[q + 5]) * 256 + f[q + 6]
  ELSE ((f[q + 12] * 256 + f[q + 13]) * 256 + f[q + 14]) * 256 + f[q + 15]

\* The source holds the end marker as the last four of the len octets from q.
EndAt(f, q, len) ==
  /\ InFile(f, q + len - 4) /\ InFile(f, q + len - 1)
  /\ \A i \in (q + len - 4)..(q + len - 1) : f[i] = 55

\* A verified start + length + end triple of the given edition begins at q.
Verified(f, q, edition) ==
  /\ StartAt(f, q)
  /\ InFile(f, q + (IF edition = 1 THEN 7 ELSE 15))
  /\ f[q + 7] = edition
  /\ EndAt(f, q, DeclaredLen(f, q, edition))

\* C4: when the source holds a valid edition-2 message at p, the search starts
\* at or before p with no verified triple before p, and the chunk size is at
\* least 16, seekgb returns lskip = p and lgrib = the declared length.
C4_ScannerComplete ==
  \A q \in DOMAIN file :
    (/\ spc = "done"
     /\ mseek >= 16
     /\ iseek <= q
     /\ Verified(file, q, 2)
     /\ \A r \in iseek..(q - 1) : ~(Verified(file, r, 1) \/ Verified(file, r, 2)))
    => (lskip = q /\ lgrib = DeclaredLen(file, q, 2))

\* C5: when seekgb returns lgrib # 0, the source holds at lskip a start marker,
\* an edition 1 or 2, a declared length equal to lgrib and the end marker at
\* lskip + lgrib - 4.
C5_ScannerSound ==
  (spc = "done" /\ lgrib # 0) =>
    \E edition \in {1, 2} :
      Verified(file, lskip, edition) /\ DeclaredLen(file, lskip, edition) = lgrib

\* C6: for every chunk size mseek >= 1, whenever seekgb goes from one chunk
\* read to the next, its search position has advanced (so that on a finite
\* source the reads reach the end and the call returns).
C6_ScannerAdvances ==
  (spc = "loop" /\ prevIpos # << >> /\ lgrib = 0 /\ nread = mseek) =>
    ipos > prevIpos[1]

\* C14: in every chunk iteration of seekgb, every octet read from the chunk
\* buffer (start marker, edition, length field) has an index below nread, the
\* number of octets the read of that iteration delivered.
C14_ScannerBufferSafety ==
  (spc \in {"loop", "done"} /\ prevIpos # << >>) => topRead < nread

-----------------------------------------------------------------------------
(* Properties of the grid definition summaries.                            *)

\* C7: for a grid definition template number outside the supported set,
\* whether g2_unpack3 succeeds or fails, getdim returns 0 with width = height =
\* iscan = 0 and getpoly returns 0 with J = K = M = 0.
C7_UnrecognizedGridZero ==
  /\ (gridCall.op = "getdim" /\ gridCall.tmplnum \notin SupportedDim) =>
       (gridCall.ret = 0 /\ width = 0 /\ height = 0 /\ iscan = 0)
  /\ (gridCall.op = "getpoly" /\ gridCall.tmplnum \notin SupportedPoly) =>
       (gridCall.ret = 0 /\ jj = 0 /\ kk = 0 /\ mm = 0)

-----------------------------------------------------------------------------
(* Properties of the template registry.                                    *)

TableNumbers == {TemplatesDrs[j].template_num : j \in 1..Len(TemplatesDrs)}

TableEntry(number) ==
  TemplatesDrs[CHOOSE j \in 1..Len(TemplatesDrs) : TemplatesDrs[j].template_num = number]

\* C8: a call of extdrstemplate that returns, for a number of the table,
\* returns a template with the fixed map and map length of that number (those
\* getdrstemplate returns); with the needs-extension flag unset the extension
\* length is 0 and no extension is attached; with it set the extension length
\* is list[10] + list[12] and every extension entry is 4. For a number that is
\* not in the table extdrstemplate and getdrstemplate return NULL.
C8_TemplateResolution ==
  /\ (drsCall.op = "extdrstemplate" /\ drsCall.outcome = "returned"
        /\ drsCall.number \in TableNumbers) =>
       LET t == drsCall.tmpl
           e == TableEntry(drsCall.number)
           g == GetDrsTemplateResult(drsCall.number, TRUE).tmpl
       IN /\ ~t.null
          /\ t.map = e.mapdrs /\ t.maplen = e.mapdrslen
          /\ t.map = g.map /\ t.maplen = g.maplen
          /\ e.needext = 0 => (t.extlen = 0 /\ t.ext.null)
          /\ e.needext # 0 =>
               /\ t.extlen = drsCall.list[10] + drsCall.list[12]
               /\ t.extlen > 0 => Len(t.ext.data) = t.extlen
               /\ \A i \in 1..Len(t.ext.data) : t.ext.data[i] = 4
  /\ (drsCall.op \in {"extdrstemplate", "getdrstemplate"}
        /\ drsCall.number \notin TableNumbers) =>
       (drsCall.outcome = "returned" /\ drsCall.tmpl.null)

C8_Witness ==
  /\ drsCall.op = "extdrstemplate"
  /\ drsCall.outcome = "returned"
  /\ drsCall.number = 1
  /\ drsCall.tmpl.extlen = 2 * MaxExt
  /\ Len(drsCall.tmpl.ext.data) = 2 * MaxExt

-----------------------------------------------------------------------------
(* Properties of the section decoders.                                     *)

\* Bit j (0 = first) of the octets that follow the indicator octet of the
\* section at secAt, most significant bit first.
BitAfterIndicator(j) == (ucgrib[secAt + 6 + (j \div 8)] \div Pow2(7 - (j % 8))) % 2

C10_NoPartialResult ==
  /\ (ucall.op = "g2_unpack2" /\ ucall.outcome = "returned" /\ ucall.ierr # 0) =>
       /\ ucall.ierr \in {2, 6}
       /\ ucall.ierr = 2 <=> ucgrib[secAt + 4] # 2
       /\ csec2.null /\ lencsec2 = 0 /\ live = {}
  /\ (ucall.op = "g2_unpack6" /\ ucall.outcome = "returned" /\ ucall.ierr # 0) =>
       /\ ucall.ierr \in {2, 6}
       /\ ucall.ierr = 2 <=> ucgrib[secAt + 4] # 6
       /\ bmap.null /\ live = {}

C10_Witness ==
  /\ ucall.op = "g2_unpack2" /\ ucall.outcome = "returned" /\ ucall.ierr = 6
  /\ ~ucall.allocOk /\ ucgrib[secAt + 3] > 5

\* The section at secAt is laid out as the call reads it: a section 2 of at
\* least its 5 header octets; a section 6 of 6 octets without an inline
\* bit-map, or with an inline bit-map of ucall.ngpts bits in whole octets.
SectionAsDeclared ==
  CASE ucall.op = "g2_unpack2" -> BE32(ucgrib, secAt) >= 5
    [] ucall.op = "g2_unpack6" ->
         IF ucgrib[secAt + 5] = 0
         THEN BE32(ucgrib, secAt) = 6 + (ucall.ngpts + 7) \div 8
         ELSE BE32(ucgrib, secAt) = 6
    [] OTHER -> FALSE

\* C12: when g2_unpack2 or g2_unpack6, called with the cursor at the first bit
\* of a section, returns 0, the cursor has advanced by 8 times the section's
\* declared length (for g2_unpack6 with indicator 0 whatever ngpts is, for
\* g2_unpack2 also with an empty payload).
C12_CursorAdvance ==
  (ucall.outcome = "returned" /\ ucall.ierr = 0 /\ SectionAsDeclared) =>
    iofst = 8 * secAt + 8 * BE32(ucgrib, secAt)

-----------------------------------------------------------------------------
(* Properties of the section scan of g2_gribend.                           *)

\* C11: on every buffer that starts with the start marker, whatever lengths it
\* declares, the accumulated length of g2_gribend's section scan is larger
\* after each loop iteration than before it, and the call ends with a positive
\* length, -3 or -4.
C11_GribEndScanTerminates ==
  /\ (gpc \in {"loop", "done"} /\ gprev # << >>) => glen > gprev[1]
  /\ (gpc = "done" /\ HasStart(gbuf)) => (gret > 0 \/ gret \in {-3, -4})

-----------------------------------------------------------------------------
(* Properties of allocation failure.                                       *)

\* The allocations a call comes to, by its arguments: g2_unpack2 allocates
\* csec2 for a section 2 with a payload, g2_unpack6 allocates the bit-map (and
\* then the intermediate array) for a section 6 with indicator 0 and
\* ngpts > 0, extdrstemplate has the template allocated for a number of the
\* table and then, for an extensible template, an extension of
\* list[10] + list[12] > 0 entries.
Unpack2Allocates == ucgrib[secAt + 4] = 2 /\ BE32(ucgrib, secAt) # 5
Unpack6Allocates == ucgrib[secAt + 4] = 6 /\ ucgrib[secAt + 5] = 0 /\ ucall.ngpts > 0
ExtAllocationFails ==
  /\ drsCall.number \in TableNumbers
  /\ \/ "new" \in failed
     \/ /\ "ext" \in failed
        /\ TableEntry(drsCall.number).needext = 1
        /\ drsCall.list[10] + drsCall.list[12] > 0

\* C13: in g2_unpack2, g2_unpack6, simunpack and extdrstemplate, a call one of
\* whose allocations fails returns its allocation-error result (6, a non-zero
\* code, NULL) and does not fault on the failed allocation; and g2_unpack2,
\* g2_unpack6 and simunpack return their allocation-error code only when an
\* allocation of the call failed.
C13_AllocationFailureSurfaced ==
  /\ ucall.op = "g2_unpack2" =>
       ((Unpack2Allocates /\ ~ucall.allocOk)
          <=> (ucall.outcome = "returned" /\ ucall.ierr = 6))
  /\ ucall.op = "g2_unpack6" =>
       ((Unpack6Allocates /\ (~ucall.allocOk \/ ~ucall.tmpOk))
          <=> (ucall.outcome = "returned" /\ ucall.ierr = 6))
  /\ simCall.op = "simunpack" =>
       (~simCall.allocOk <=> (simCall.outcome = "returned" /\ simCall.ierr # 0))
  /\ (drsCall.op = "extdrstemplate" /\ ExtAllocationFails) =>
       (drsCall.outcome = "returned" /\ drsCall.tmpl.null)

-----------------------------------------------------------------------------
(* Specifications, one for each component.                                 *)

vars == <<asmVars, seekVars, gridVars, drsVars, unpVars, scanVars, simVars>>

\* Message assembly: g2_create, add-section calls and g2_gribend on one buffer.
InitEnd == AsmInit /\ SeekIdle /\ GridIdle /\ DrsIdle /\ UnpIdle /\ ScanIdle /\ SimIdle

AsmNext ==
  \/ \E edition \in {1, 2} :
       G2Create(edition) /\ UNCHANGED <<seekVars, gridVars, drsVars, unpVars, scanVars, simVars>>
  \/ \E isecnum \in AddedSecNums, ilen \in 5..MaxSecLen :
       AddSection(isecnum, ilen) /\ UNCHANGED <<seekVars, gridVars, drsVars, unpVars, scanVars, simVars>>
  \/ \E oob \in OobOctets :
       G2GribEnd(oob) /\ UNCHANGED <<seekVars, gridVars, drsVars, unpVars, scanVars, simVars>>

SpecEnd == InitEnd /\ [][AsmNext]_vars

\* One call of seekgb on a byte source.
InitSeek == SeekInit /\ AsmInit /\ GridIdle /\ DrsIdle /\ UnpIdle /\ ScanIdle /\ SimIdle

SeekNext ==
  \/ \E fill \in StaleOctets :
       SeekgbEntry(fill) /\ UNCHANGED <<asmVars, gridVars, drsVars, unpVars, scanVars, simVars>>
  \/ \E oob \in StaleOctets :
       SeekgbChunk(oob) /\ UNCHANGED <<asmVars, gridVars, drsVars, unpVars, scanVars, simVars>>
  \/ SeekgbReturn /\ UNCHANGED <<asmVars, gridVars, drsVars, unpVars, scanVars, simVars>>

SpecSeek == InitSeek /\ [][SeekNext]_vars

\* Calls of getdim and getpoly, whatever g2_unpack3 decodes.
InitGrid == GridInit /\ AsmInit /\ SeekIdle /\ DrsIdle /\ UnpIdle /\ ScanIdle /\ SimIdle

GridNext ==
  \/ \E tmplnum \in TmplNums, jerr \in Unpack3Codes, base \in TmplBases :
       GetDim(tmplnum, jerr, base) /\ UNCHANGED <<asmVars, seekVars, drsVars, unpVars, scanVars, simVars>>
  \/ \E tmplnum \in TmplNums, jerr \in Unpack3Codes, base \in TmplBases :
       GetPoly(tmplnum, jerr, base) /\ UNCHANGED <<asmVars, seekVars, drsVars, unpVars, scanVars, simVars>>

SpecGrid == InitGrid /\ [][GridNext]_vars

\* Calls of getdrstemplate and extdrstemplate.
InitDrs == DrsIdle /\ AsmInit /\ SeekIdle /\ GridIdle /\ UnpIdle /\ ScanIdle /\ SimIdle

DrsNext ==
  \/ \E number \in DrsNumbers, allocOk \in BOOLEAN :
       GetDrsTemplate(number, allocOk) /\ UNCHANGED <<asmVars, seekVars, gridVars, unpVars, scanVars, simVars>>
  \/ \E number \in DrsNumbers, a \in -1..MaxExt, b \in -1..MaxExt,
        allocOk \in BOOLEAN, extOk \in BOOLEAN :
       ExtDrsTemplate(number, DrsList(a, b), allocOk, extOk)
         /\ UNCHANGED <<asmVars, seekVars, gridVars, unpVars, scanVars, simVars>>

SpecDrs == InitDrs /\ [][DrsNext]_vars

\* One call of g2_unpack2 or g2_unpack6 on a message buffer, with the cursor at
\* the first bit of its section.
InitUnp == UnpInit /\ AsmInit /\ SeekIdle /\ GridIdle /\ DrsIdle /\ ScanIdle /\ SimIdle

UnpNext ==
  \/ \E allocOk \in BOOLEAN, oob \in OobOctets :
       ucall.op = "none" /\ G2Unpack2(allocOk, oob) /\ UNCHANGED <<asmVars, seekVars, gridVars, drsVars, scanVars, simVars>>
  \/ \E ngpts \in 0..MaxNgpts, allocOk \in BOOLEAN, tmpOk \in BOOLEAN,
        oob \in OobOctets :
       ucall.op = "none" /\ G2Unpack6(ngpts, allocOk, tmpOk, oob)
         /\ UNCHANGED <<asmVars, seekVars, gridVars, drsVars, scanVars, simVars>>

SpecUnp == InitUnp /\ [][UnpNext]_vars

\* One call of g2_gribend on any buffer, one loop iteration at a time.
InitScan == ScanInit /\ AsmInit /\ SeekIdle /\ GridIdle /\ DrsIdle /\ UnpIdle /\ SimIdle

ScanNext ==
  \/ \E oob \in OobOctets :
       GribEndEnter(oob) /\ UNCHANGED <<asmVars, seekVars, gridVars, drsVars, unpVars, simVars>>
  \/ \E oob \in OobOctets :
       GribEndLoop(oob) /\ UNCHANGED <<asmVars, seekVars, gridVars, drsVars, unpVars, simVars>>

SpecScan == InitScan /\ [][ScanNext]_vars

\* One call of g2_unpack2, g2_unpack6, simunpack or extdrstemplate, whatever
\* the allocator answers.
InitAlloc == AllocInit /\ UnpInit /\ AsmInit /\ SeekIdle /\ GridIdle /\ DrsIdle /\ ScanIdle

NoneCalled == ucall.op = "none" /\ simCall.op = "none" /\ drsCall.op = "none"

AllocNext ==
  \/ \E allocOk \in BOOLEAN, oob \in OobOctets :
       NoneCalled /\ G2Unpack2(allocOk, oob)
         /\ UNCHANGED <<asmVars, seekVars, gridVars, drsVars, scanVars, simVars>>
  \/ \E ngpts \in 0..MaxNgpts, allocOk \in BOOLEAN, tmpOk \in BOOLEAN,
        oob \in OobOctets :
       NoneCalled /\ G2Unpack6(ngpts, allocOk, tmpOk, oob)
         /\ UNCHANGED <<asmVars, seekVars, gridVars, drsVars, scanVars, simVars>>
  \/ \E idrstmpl \in SimTemplates, ndpts \in 0..MaxNdpts, allocOk \in BOOLEAN :
       NoneCalled /\ SimUnpack(SimPack, idrstmpl, ndpts, allocOk)
         /\ UNCHANGED <<asmVars, seekVars, gridVars, drsVars, unpVars, scanVars>>
  \/ \E number \in AllocNumbers, a \in AllocExts, b \in AllocExts :
       NoneCalled
         /\ ExtDrsTemplate(number, DrsList(a, b), "new" \notin failed, "ext" \notin failed)
         /\ UNCHANGED <<asmVars, seekVars, gridVars, unpVars, scanVars, simCall, fld, failed>>

SpecAlloc == InitAlloc /\ [][AllocNext]_vars

=============================================================================
